---- MODULE Spec2Model ----
(***************************************************************************)
(* ClimateChic geoAI: the land analyzer (climatechic_mvp_poc.py), its file *)
(* front end process_geojson_file, and the click handlers of the simple    *)
(* drawing page (climatechic_simple.py).                                   *)
(*                                                                         *)
(* Numbers.  Python floats are modelled as exact rationals [n, d] in       *)
(* lowest terms.  Coordinates are fixed point: x in tenths of a degree, y  *)
(* in millionths of a degree, so an area is a whole number of 10^-7 square *)
(* degrees.  Float rounding error is outside the model.                    *)
(*                                                                         *)
(* Geometry.  A geometry is a finite set of closed axis-parallel           *)
(* rectangles (a rectangle of zero width or height is a segment or a       *)
(* point); its point set is their union.  The two shipped regions are      *)
(* rectangles, and so are the boundary pieces of the model.                *)
(***************************************************************************)
EXTENDS Integers, Sequences, FiniteSets

VARIABLES
    FLORA_DATABASE,      \* module global: biome key -> list of flora entries
    BIOGEO_REGIONS_GDF,  \* module global: ordered rows [name, geometry]
    boundary_gdf,        \* the boundary under study: a sequence of pieces
    arg,                 \* argument of the latest analyze_land call (<<>>: none yet)
    ret,                 \* what that call returned or raised
    first,               \* <<r>>: what the first call on boundary_gdf gave
    ncalls,              \* number of analyze_land calls made
    disk,                \* file system: path -> file content
    stdout,              \* tags of the lines printed by the latest run
    escaped,             \* exception that left process_geojson_file, or "none"
    run,                 \* the latest process_geojson_file run: its number,
                         \* path, the exception raised in its try body and
                         \* (history) the file system it started from
    polygon,             \* window.polygon: index into drawnItems, 0 when unset
    drawnItems,          \* layers of the feature group: each a list of latlngs
    downloads,           \* GeoJSON documents handed to the browser's download
    clicked              \* history: left clicks since the last export

vars == <<FLORA_DATABASE, BIOGEO_REGIONS_GDF, boundary_gdf, arg, ret, first,
          ncalls, disk, stdout, escaped, run, polygon, drawnItems, downloads,
          clicked>>

(***************************************************************************)
(* Bounds of the model.                                                    *)
(***************************************************************************)
\* most pieces (rows) in a boundary GeoDataFrame
MaxPieces == 2
\* most analyze_land calls in one session
MaxCalls == 3
\* most process_geojson_file runs in one session
MaxRuns == 2
\* most mouse events on the drawing page
MaxEvents == 6

(***************************************************************************)
(* Exact rational arithmetic standing in for Python float arithmetic.       *)
(***************************************************************************)
Abs(i) == IF i < 0 THEN -i ELSE i

Min(S) == CHOOSE v \in S : \A w \in S : v <= w

Max(S) == CHOOSE v \in S : \A w \in S : v >= w

RECURSIVE GCD(_, _)
GCD(a, b) == IF b = 0 THEN Abs(a) ELSE GCD(b, a % b)

\* n / d in lowest terms, d > 0
Rat(n, d) == LET g == GCD(n, d) IN [n |-> n \div g, d |-> d \div g]

Zero == [n |-> 0, d |-> 1]

\* n1/d1 < n2/d2 for n1, n2 >= 0 and d1, d2 > 0, by whole parts and then
\* the reciprocals of the remainders (no product of large numbers)
RECURSIVE FracLess(_, _, _, _)
FracLess(n1, d1, n2, d2) ==
    IF n1 \div d1 # n2 \div d2 THEN n1 \div d1 < n2 \div d2
    ELSE IF n2 % d2 = 0 THEN FALSE
    ELSE IF n1 % d1 = 0 THEN TRUE
    ELSE FracLess(d2, n2 % d2, d1, n1 % d1)

RLess(a, b) == FracLess(a.n, a.d, b.n, b.d)

RLeq(a, b) == ~RLess(b, a)

\* a / b for rationals a, b with b # 0 (common factors cancelled first)
RDiv(a, b) ==
    LET g1 == GCD(a.n, b.n)
        g2 == GCD(a.d, b.d)
    IN  Rat((a.n \div g1) * (b.d \div g2), (a.d \div g2) * (b.n \div g1))

\* r * k for an integer k > 0
RMul(r, k) ==
    LET g == GCD(r.d, k) IN Rat(r.n * (k \div g), r.d \div g)

\* Python int(x): truncation toward zero
int(r) == IF r.n >= 0 THEN r.n \div r.d ELSE -((-r.n) \div r.d)

\* 10^k
RECURSIVE Pow10(_)
Pow10(k) == IF k = 0 THEN 1 ELSE 10 * Pow10(k - 1)

\* Python round(x, ndigits) for x >= 0: to the nearest multiple of
\* 10^-ndigits, an exact tie going to the even multiple
round(r, ndigits) ==
    LET scale == Pow10(ndigits)
        whole == r.n \div r.d
        frac  == (r.n % r.d) * scale
        units == whole * scale + (frac \div r.d)
        rest  == frac % r.d
        up    == 2 * rest > r.d \/ (2 * rest = r.d /\ units % 2 = 1)
    IN  Rat(IF up THEN units + 1 ELSE units, scale)

(***************************************************************************)
(* Geometry (shapely), on fixed-point coordinates.                         *)
(***************************************************************************)
\* the closed rectangle [x1, x2] x [y1, y2]
Rect(x1, x2, y1, y2) == [x1 |-> x1, x2 |-> x2, y1 |-> y1, y2 |-> y2]

\* shapely Polygon(ring) for a ring, in fixed-point coordinates, that walks
\* an axis-parallel rectangle
Polygon(ring) ==
    LET xs == {ring[i][1] : i \in DOMAIN ring}
        ys == {ring[i][2] : i \in DOMAIN ring}
    IN  {Rect(Min(xs), Max(xs), Min(ys), Max(ys))}

\* GeoSeries.union_all(): the union of the rows' geometries
union_all(gdf) == {gdf[i] : i \in DOMAIN gdf}

RectsMeet(r, s) ==
    r.x1 <= s.x2 /\ s.x1 <= r.x2 /\ r.y1 <= s.y2 /\ s.y1 <= r.y2

\* g.intersects(h): the two closed point sets share a point
intersects(g, h) == \E r \in g, s \in h : RectsMeet(r, s)

\* g.intersection(h)
intersection(g, h) ==
    {Rect(Max({r.x1, s.x1}), Min({r.x2, s.x2}),
          Max({r.y1, s.y1}), Min({r.y2, s.y2})) :
        <<r, s>> \in {p \in g \X h : RectsMeet(p[1], p[2])}}

RECURSIVE SumCells(_, _)
SumCells(cells, g) ==
    IF cells = {} THEN 0
    ELSE LET c  == CHOOSE c \in cells : TRUE
             xs == UNION {{r.x1, r.x2} : r \in g}
             ys == UNION {{r.y1, r.y2} : r \in g}
             nx == Min({x \in xs : x > c[1]})
             ny == Min({y \in ys : y > c[2]})
             covered == \E r \in g : /\ r.x1 <= c[1] /\ nx <= r.x2
                                     /\ r.y1 <= c[2] /\ ny <= r.y2
         IN  (IF covered THEN (nx - c[1]) * (ny - c[2]) ELSE 0)
             + SumCells(cells \ {c}, g)

\* (mutant) the pieces' areas added up, a doubly covered part counted twice
AreaUnitsPerPiece(g) ==
    LET RECURSIVE Total(_)
        Total(S) == IF S = {} THEN 0
                    ELSE LET r == CHOOSE r \in S : TRUE
                         IN  (r.x2 - r.x1) * (r.y2 - r.y1) + Total(S \ {r})
    IN  Total(g)

\* area of the union of g's rectangles, in area units: each cell of the grid
\* cut by the rectangles' sides counts once when some rectangle covers it
AreaUnits(g) ==
    IF g = {} THEN 0
    ELSE LET xs == UNION {{r.x1, r.x2} : r \in g}
             ys == UNION {{r.y1, r.y2} : r \in g}
         IN  SumCells((xs \ {Max(xs)}) \X (ys \ {Max(ys)}), g)

\* g.area, in square degrees
area(g) == Rat(AreaUnits(g), Pow10(7))

(***************************************************************************)
(* 1. The data tables.  Strings that the code takes apart (region names,   *)
(* biome keys, file paths) are sequences of tokens.                        *)
(***************************************************************************)
Tropical_Rainforest == <<"Tropical", "_", "Rainforest">>

Tropical_Savanna == <<"Tropical", "_", "Savanna">>

Suffix_Region == <<"_", "Region">>

FloraShipped ==
    [k \in {Tropical_Rainforest, Tropical_Savanna} |->
        IF k = Tropical_Rainforest
        THEN << [name |-> "Leucaena leucocephala", type |-> "Tree",
                 chicken_benefit |-> "High-protein forage, shade"],
                [name |-> "Moringa oleifera", type |-> "Tree",
                 chicken_benefit |-> "Vitamins, minerals, forage"],
                [name |-> "Paspalum notatum", type |-> "Grass",
                 chicken_benefit |-> "Ground cover, forage"] >>
        ELSE << [name |-> "Acacia tortilis", type |-> "Tree",
                 chicken_benefit |-> "Shade, pods for forage"],
                [name |-> "Cenchrus ciliaris", type |-> "Grass",
                 chicken_benefit |-> "Drought-resistant forage"] >>]

\* The shipped table, and the same table with the default biome's entry
\* left out: the only way FLORA_DATABASE.get's default is ever taken.
FloraConfigs ==
    {FloraShipped,
     [k \in {Tropical_Rainforest} |-> FloraShipped[k]]}

\* x in tenths of a degree, y in millionths of a degree
RegionsShipped ==
    << [name |-> Tropical_Rainforest \o Suffix_Region,
        geometry |-> Polygon(<< <<335, -1500000>>, <<355, -1500000>>,
                                <<355, 1500000>>, <<335, 1500000>>,
                                <<335, -1500000>> >>)],
       [name |-> Tropical_Savanna \o Suffix_Region,
        geometry |-> Polygon(<< <<360, -2000000>>, <<380, -2000000>>,
                                <<380, 500000>>, <<360, 500000>>,
                                <<360, -2000000>> >>)] >>

(***************************************************************************)
(* 2. analyze_land                                                         *)
(***************************************************************************)
\* whether sep occurs in s at position i
OccursAt(s, sep, i) ==
    /\ i + Len(sep) - 1 <= Len(s)
    /\ \A j \in 1..Len(sep) : s[i + j - 1] = sep[j]

\* (mutant) split at the separator's first token alone: s.split('_')[0]
SplitHeadAtFirstToken(s, sep) ==
    LET hits == {i \in 1..Len(s) : s[i] = sep[1]}
    IN  IF hits = {} THEN s ELSE SubSeq(s, 1, Min(hits) - 1)

\* s.split(sep)[0]: s up to the first occurrence of sep, all of s if none
SplitHead(s, sep) ==
    LET hits == {i \in 1..Len(s) : OccursAt(s, sep, i)}
    IN  IF hits = {} THEN s ELSE SubSeq(s, 1, Min(hits) - 1)

\* dict.get(key, default)
get(dict, key, default) == IF key \in DOMAIN dict THEN dict[key] ELSE default

\* (mutant) the quotient upside down: boundary_geom.area / overlap_area
OverlapPercentageSwapped(overlap_area, boundary_area) ==
    IF overlap_area.n = 0 THEN Zero
    ELSE RMul(RDiv(boundary_area, overlap_area), 100)

\* overlap_percentage = (overlap_area / boundary_geom.area) * 100
OverlapPercentage(overlap_area, boundary_area) ==
    RMul(RDiv(overlap_area, boundary_area), 100)

\* (mutant) the loop's test with >= for >
AtLeast(overlap_percentage, max_overlap) ==
    RLeq(max_overlap, overlap_percentage)

\* the loop's test: overlap_percentage > max_overlap
Exceeds(overlap_percentage, max_overlap) ==
    RLess(max_overlap, overlap_percentage)

\* The loop over BIOGEO_REGIONS_GDF.iterrows(), from row i on, with the
\* loop's two accumulators; intersected_region is <<>> for None, else <<name>>.
\* Float division by a zero area raises ZeroDivisionError.
RECURSIVE RegionLoop(_, _, _, _, _)
RegionLoop(boundary_geom, regions, i, intersected_region, max_overlap) ==
    IF i > Len(regions)
    THEN [exc |-> "none", intersected_region |-> intersected_region,
          max_overlap |-> max_overlap]
    ELSE
      LET region == regions[i] IN
      IF intersects(boundary_geom, region.geometry)
      THEN
        IF AreaUnits(boundary_geom) = 0
        THEN [exc |-> "ZeroDivisionError",
              intersected_region |-> intersected_region,
              max_overlap |-> max_overlap]
        ELSE
          LET overlap_area == area(intersection(boundary_geom, region.geometry))
              overlap_percentage ==
                  OverlapPercentage(overlap_area, area(boundary_geom))
          IN  IF Exceeds(overlap_percentage, max_overlap)
              THEN RegionLoop(boundary_geom, regions, i + 1,
                              <<region.name>>, overlap_percentage)
              ELSE RegionLoop(boundary_geom, regions, i + 1,
                              intersected_region, max_overlap)
      ELSE RegionLoop(boundary_geom, regions, i + 1,
                      intersected_region, max_overlap)

\* (mutant) the other biome as the default
RegionKeyDefaultRainforest(intersected_region) ==
    IF intersected_region # <<>>
    THEN SplitHead(intersected_region[1], Suffix_Region)
    ELSE Tropical_Rainforest

\* region_key = intersected_region.split('_Region')[0]
\*              if intersected_region else "Tropical_Savanna"
RegionKey(intersected_region) ==
    IF intersected_region # <<>>
    THEN SplitHead(intersected_region[1], Suffix_Region)
    ELSE Tropical_Savanna

\* (mutant) the three counts taken from the rounded hectares
SimulationFromRounded(boundary_geom, max_overlap) ==
    LET area_hectares == round(RMul(area(boundary_geom), 10000), 2) IN
    [land_area_hectares |-> area_hectares,
     estimated_trees_year_5 |-> int(RMul(area_hectares, 100)),
     estimated_chickens_year_2 |-> int(RMul(area_hectares, 50)),
     black_soldier_fly_production_kg_week |-> int(RMul(area_hectares, 2)),
     region_overlap_percentage |-> round(max_overlap, 1)]

\* plan['simulation']
Simulation(boundary_geom, max_overlap) ==
    LET area_hectares == RMul(area(boundary_geom), 10000) IN
    [land_area_hectares |-> round(area_hectares, 2),
     estimated_trees_year_5 |-> int(RMul(area_hectares, 100)),
     estimated_chickens_year_2 |-> int(RMul(area_hectares, 50)),
     black_soldier_fly_production_kg_week |-> int(RMul(area_hectares, 2)),
     region_overlap_percentage |-> round(max_overlap, 1)]

\* The plan built after the loop (or the loop's exception passed on):
\* [exc, plan], where plan is <<the plan>> on a return and <<>> on a raise
BuildPlan(boundary_geom, loop, flora, region_key) ==
    IF loop.exc # "none"
    THEN [exc |-> loop.exc, plan |-> <<>>]
    ELSE [exc |-> "none",
          plan |-> << [biogeographic_region |-> region_key,
                       recommended_flora |-> get(flora, region_key, <<>>),
                       simulation |->
                           Simulation(boundary_geom, loop.max_overlap)] >>]

AfterLoop(boundary_geom, loop, flora) ==
    BuildPlan(boundary_geom, loop, flora, RegionKey(loop.intersected_region))

AnalyzeGeom(boundary_geom, regions, flora) ==
    AfterLoop(boundary_geom,
              RegionLoop(boundary_geom, regions, 1, <<>>, Zero), flora)

\* analyze_land(boundary_gdf) against the two tables; no statement of it
\* sits in a try block, so what its loop raises leaves it
analyze_land(gdf, regions, flora) ==
    AnalyzeGeom(union_all(gdf), regions, flora)

(***************************************************************************)
(* 3. generate_plan_report and process_geojson_file                        *)
(***************************************************************************)
\* The report, as its lines' variable parts in order: the header fields,
\* one line per flora entry, the three projections.  (The fixed lines --
\* title, rule, headings, operational guidelines -- carry no data.)
generate_plan_report(plan) ==
    << <<"Region", plan.biogeographic_region>>,
       <<"Area", plan.simulation.land_area_hectares, "hectares">>,
       <<"Region Overlap", plan.simulation.region_overlap_percentage, "%">>,
       <<"RECOMMENDED FLORA">> >>
    \o [i \in DOMAIN plan.recommended_flora |->
           <<"*", plan.recommended_flora[i].name,
             plan.recommended_flora[i].type,
             plan.recommended_flora[i].chicken_benefit>>]
    \o << <<"Trees (Year 5)", plan.simulation.estimated_trees_year_5>>,
          <<"Chickens (Year 2)", plan.simulation.estimated_chickens_year_2>>,
          <<"BSF Production",
            plan.simulation.black_soldier_fly_production_kg_week, "kg/week">> >>

\* gpd.read_file(path): the GeoDataFrame of a GeoJSON file; anything else
\* (no such file, content that is no GeoJSON) raises
read_file(fs, path) ==
    IF path \in DOMAIN fs /\ fs[path].kind = "geojson"
    THEN [exc |-> "none", gdf |-> fs[path].data]
    ELSE [exc |-> "DataSourceError", gdf |-> <<>>]

\* str.replace(old, new) on a path whose tokens are its stem and extension
replace(path, old, new) ==
    [i \in DOMAIN path |-> IF path[i] = old THEN new ELSE path[i]]

\* open(name, 'w').write(text)
write(fs, name, text) ==
    [p \in DOMAIN fs \cup {name} |->
        IF p = name THEN [kind |-> "text", data |-> text] ELSE fs[p]]

\* (mutant) a handler for input/output errors only
CaughtByNarrowHandler(exc) == exc \in {"DataSourceError", "OSError"}

\* the exceptions that `except Exception` catches
CaughtByHandler(exc) ==
    exc \in {"DataSourceError", "ZeroDivisionError", "KeyError", "OSError"}

\* The try body of process_geojson_file, step by step: the exception it
\* raised ("none"), the file system it left, and what it printed.
WriteReport(geojson_path, fs, report) ==
    [exc |-> "none",
     fs |-> write(fs, replace(geojson_path, ".geojson", "_report.txt"), report),
     out |-> <<"Processing", "Analysis complete", "report">>]

AfterAnalysis(geojson_path, fs, restoration_plan) ==
    IF restoration_plan.exc # "none"
    THEN [exc |-> restoration_plan.exc, fs |-> fs, out |-> <<"Processing">>]
    ELSE WriteReport(geojson_path, fs,
                     generate_plan_report(restoration_plan.plan[1]))

AfterRead(geojson_path, fs, rd, regions, flora) ==
    IF rd.exc # "none"
    THEN [exc |-> rd.exc, fs |-> fs, out |-> <<"Processing">>]
    ELSE AfterAnalysis(geojson_path, fs, analyze_land(rd.gdf, regions, flora))

TryBody(geojson_path, fs, regions, flora) ==
    AfterRead(geojson_path, fs, read_file(fs, geojson_path), regions, flora)

\* the except clause: print the error and the traceback, or let it pass
Handler(body) ==
    IF body.exc = "none"
    THEN [raised |-> "none", escaped |-> "none", fs |-> body.fs,
          out |-> body.out]
    ELSE IF CaughtByHandler(body.exc)
    THEN [raised |-> body.exc, escaped |-> "none", fs |-> body.fs,
          out |-> body.out \o <<"Error processing file", body.exc,
                                "traceback">>]
    ELSE [raised |-> body.exc, escaped |-> body.exc, fs |-> body.fs,
          out |-> body.out]

\* process_geojson_file(geojson_path): try body, then the handler
process_geojson_file(geojson_path, fs, regions, flora) ==
    Handler(TryBody(geojson_path, fs, regions, flora))

(***************************************************************************)
(* 4. Inputs                                                               *)
(***************************************************************************)
\* x sides of the pieces: two inside the first region (its right side is
\* x = 355), two inside the second (x from 360)
PieceXs == {346, 355, 366, 375}

\* y extents of the pieces: one inside both regions' y range, one lying on
\* the first region's top side (y = 1500000) and above the second region
PieceYs == {<<0, 7>>, <<1500000, 1500007>>}

\* one square degree inside the first region
UnitSquare == Rect(340, 350, 0, 1000000)

\* a segment inside the first region, and one that meets no region
Segments == {Rect(346, 346, 0, 7), Rect(366, 366, 1500000, 1500007)}

Pieces ==
    {Rect(x1, x2, y[1], y[2]) :
        <<x1, x2, y>> \in {t \in PieceXs \X PieceXs \X PieceYs : t[1] < t[2]}}
    \cup Segments \cup {UnitSquare}

RECURSIVE SeqsUpTo(_, _)
SeqsUpTo(S, n) ==
    IF n = 0 THEN {<<>>}
    ELSE LET shorter == SeqsUpTo(S, n - 1)
         IN  shorter \cup {Append(q, e) : <<q, e>> \in shorter \X S}

\* the boundaries: one to MaxPieces pieces
Boundaries == SeqsUpTo(Pieces, MaxPieces) \ {<<>>}

\* a second boundary, for calls made in between
OtherBoundaries == {<<Rect(366, 375, 0, 7)>>}

NoResult == [exc |-> "none", plan |-> <<>>]

NoFiles == [p \in {} |-> 0]

NoRun == [n |-> 0, path |-> <<>>, raised |-> "none", before |-> NoFiles]

InputGeojson == <<"farm", ".geojson">>

InputJson == <<"farm", ".json">>

BrokenGeojson == <<"broken", ".geojson">>

MissingGeojson == <<"missing", ".geojson">>

Paths == {InputGeojson, InputJson, BrokenGeojson, MissingGeojson}

(***************************************************************************)
(* 5. The analyzer called directly                                         *)
(***************************************************************************)
IdleFiles ==
    /\ disk = NoFiles /\ stdout = <<>> /\ escaped = "none" /\ run = NoRun

IdlePage ==
    /\ polygon = 0 /\ drawnItems = <<>> /\ downloads = <<>> /\ clicked = <<>>

IdleCalls ==
    /\ arg = <<>> /\ ret = NoResult /\ first = <<>> /\ ncalls = 0

Init ==
    /\ FLORA_DATABASE \in FloraConfigs
    /\ BIOGEO_REGIONS_GDF = RegionsShipped
    /\ boundary_gdf \in Boundaries
    /\ IdleCalls /\ IdleFiles /\ IdlePage

\* (mutant) a call that takes the flora list out of the table
\* (FLORA_DATABASE.pop for FLORA_DATABASE.get)
AnalyzeLandPopping(b) ==
    /\ ncalls < MaxCalls
    /\ arg' = b
    /\ ret' = analyze_land(b, BIOGEO_REGIONS_GDF, FLORA_DATABASE)
    /\ FLORA_DATABASE' =
           IF ret'.plan = <<>> THEN FLORA_DATABASE
           ELSE [k \in DOMAIN FLORA_DATABASE
                       \ {ret'.plan[1].biogeographic_region} |->
                    FLORA_DATABASE[k]]
    /\ first' = IF b = boundary_gdf /\ first = <<>> THEN <<ret'>> ELSE first
    /\ ncalls' = ncalls + 1
    /\ UNCHANGED <<BIOGEO_REGIONS_GDF, boundary_gdf, disk, stdout, escaped,
                   run, polygon, drawnItems, downloads, clicked>>

\* one call analyze_land(b)
AnalyzeLand(b) ==
    /\ ncalls < MaxCalls
    /\ arg' = b
    /\ ret' = analyze_land(b, BIOGEO_REGIONS_GDF, FLORA_DATABASE)
    /\ first' = IF b = boundary_gdf /\ first = <<>> THEN <<ret'>> ELSE first
    /\ ncalls' = ncalls + 1
    /\ UNCHANGED <<FLORA_DATABASE, BIOGEO_REGIONS_GDF, boundary_gdf, disk,
                   stdout, escaped, run, polygon, drawnItems, downloads,
                   clicked>>

CallOnBoundary == AnalyzeLand(boundary_gdf)

CallOnOther == \E b \in OtherBoundaries : AnalyzeLand(b)

Next == CallOnBoundary \/ CallOnOther

Spec == Init /\ [][Next]_vars

(***************************************************************************)
(* 6. The file front end                                                   *)
(***************************************************************************)
\* Two GeoJSON files holding the boundary (one named *.geojson, one not)
\* and one file that is no GeoJSON.
InitialFiles(gdf) ==
    [p \in {InputGeojson, InputJson, BrokenGeojson} |->
        IF p = BrokenGeojson
        THEN [kind |-> "garbage", data |-> <<>>]
        ELSE [kind |-> "geojson", data |-> gdf]]

InitFile ==
    /\ FLORA_DATABASE = FloraShipped
    /\ BIOGEO_REGIONS_GDF = RegionsShipped
    /\ boundary_gdf \in Boundaries
    /\ disk = InitialFiles(boundary_gdf)
    /\ stdout = <<>> /\ escaped = "none" /\ run = NoRun
    /\ IdleCalls /\ IdlePage

\* the state after a run that ended as r
Ran(path, r) ==
    /\ disk' = r.fs
    /\ stdout' = r.out
    /\ escaped' = r.escaped
    /\ run' = [n |-> run.n + 1, path |-> path, raised |-> r.raised,
               before |-> disk]

\* one run of process_geojson_file(path); an escaped exception ends the
\* process
ProcessGeojsonFile(path) ==
    /\ run.n < MaxRuns
    /\ escaped = "none"
    /\ Ran(path, process_geojson_file(path, disk, BIOGEO_REGIONS_GDF,
                                      FLORA_DATABASE))
    /\ UNCHANGED <<FLORA_DATABASE, BIOGEO_REGIONS_GDF, boundary_gdf, arg, ret,
                   first, ncalls, polygon, drawnItems, downloads, clicked>>

NextFile == \E path \in Paths : ProcessGeojsonFile(path)

SpecFile == InitFile /\ [][NextFile]_vars

(***************************************************************************)
(* 7. The simple drawing page                                              *)
(***************************************************************************)
\* the points a click can land on
LatLngs == {[lat |-> -1, lng |-> 36], [lat |-> -2, lng |-> 37]}

\* L.Polygon.toGeoJSON(): the ring in [lng, lat] order, closed by a copy of
\* its first coordinate
toGeoJSON(latlngs) ==
    LET coords == [i \in DOMAIN latlngs |-> <<latlngs[i].lng, latlngs[i].lat>>]
        closed == IF coords = <<>> THEN coords ELSE Append(coords, coords[1])
    IN  [type |-> "Feature",
         geometry |-> [type |-> "Polygon", coordinates |-> <<closed>>]]

\* mouse events handled so far that changed the page
Events ==
    LET RECURSIVE Points(_)
        Points(i) == IF i = 0 THEN 0 ELSE Len(drawnItems[i]) + Points(i - 1)
    IN  Points(Len(drawnItems)) + Len(downloads)

InitMap ==
    /\ FLORA_DATABASE = FloraShipped
    /\ BIOGEO_REGIONS_GDF = RegionsShipped
    /\ boundary_gdf = <<UnitSquare>>
    /\ IdleCalls /\ IdleFiles /\ IdlePage

\* map.on('click')
Click(latlng) ==
    /\ Events < MaxEvents
    /\ IF polygon = 0
       THEN /\ drawnItems' = Append(drawnItems, <<latlng>>)
            /\ polygon' = Len(drawnItems) + 1
       ELSE /\ drawnItems' = [drawnItems EXCEPT ![polygon] = Append(@, latlng)]
            /\ polygon' = polygon
    /\ clicked' = Append(clicked, latlng)
    /\ UNCHANGED <<FLORA_DATABASE, BIOGEO_REGIONS_GDF, boundary_gdf, arg, ret,
                   first, ncalls, disk, stdout, escaped, run, downloads>>

\* (mutant) the handler without its last statement, window.polygon = null
ContextMenuKeepingPolygon ==
    /\ Events < MaxEvents
    /\ IF polygon # 0
       THEN /\ downloads' = Append(downloads, toGeoJSON(drawnItems[polygon]))
            /\ polygon' = polygon
            /\ clicked' = <<>>
       ELSE UNCHANGED <<downloads, polygon, clicked>>
    /\ UNCHANGED <<FLORA_DATABASE, BIOGEO_REGIONS_GDF, boundary_gdf, arg, ret,
                   first, ncalls, disk, stdout, escaped, run, drawnItems>>

\* map.on('contextmenu')
ContextMenu ==
    /\ Events < MaxEvents
    /\ IF polygon # 0
       THEN /\ downloads' = Append(downloads, toGeoJSON(drawnItems[polygon]))
            /\ polygon' = 0
            /\ clicked' = <<>>
       ELSE UNCHANGED <<downloads, polygon, clicked>>
    /\ UNCHANGED <<FLORA_DATABASE, BIOGEO_REGIONS_GDF, boundary_gdf, arg, ret,
                   first, ncalls, disk, stdout, escaped, run, drawnItems>>

NextMap == (\E latlng \in LatLngs : Click(latlng)) \/ ContextMenu

SpecMap == InitMap /\ [][NextMap]_vars

(***************************************************************************)
(* 8. Properties of analyze_land (checked under Spec).  They read the      *)
(* latest call: its argument arg and its outcome ret.  Areas on this side  *)
(* are computed by inclusion and exclusion over the pieces, not by the     *)
(* grid sum the model of shapely uses.                                     *)
(***************************************************************************)
Called == ncalls > 0

Returned == Called /\ ret.exc = "none" /\ Len(ret.plan) = 1

ThePlan == ret.plan[1]

Merged == union_all(arg)

ThePercentage == ThePlan.simulation.region_overlap_percentage

\* some piece has an interior: the merged shape has strictly positive area
PositiveArea(b) == \E i \in DOMAIN b : b[i].x1 < b[i].x2 /\ b[i].y1 < b[i].y2

RegionRect(i) == CHOOSE r \in BIOGEO_REGIONS_GDF[i].geometry : TRUE

RegionIds == DOMAIN BIOGEO_REGIONS_GDF

\* the biome key each shipped region stands for
BiomeOfRegion == <<Tropical_Rainforest, Tropical_Savanna>>

\* area of the rectangle common to all rectangles of S (0 when there is none)
CommonArea(S) ==
    LET x1 == Max({r.x1 : r \in S})
        x2 == Min({r.x2 : r \in S})
        y1 == Max({r.y1 : r \in S})
        y2 == Min({r.y2 : r \in S})
    IN  IF x1 < x2 /\ y1 < y2 THEN (x2 - x1) * (y2 - y1) ELSE 0

RECURSIVE SignedSum(_)
SignedSum(subsets) ==
    IF subsets = {} THEN 0
    ELSE LET S == CHOOSE S \in subsets : TRUE
         IN  (IF Cardinality(S) % 2 = 1 THEN CommonArea(S) ELSE -CommonArea(S))
             + SignedSum(subsets \ {S})

\* area of the union of g's rectangles, by inclusion and exclusion
UnionArea(g) == SignedSum(SUBSET g \ {{}})

\* area of the part of the merged boundary b inside region i
OverlapWith(b, i) ==
    UnionArea({[x1 |-> Max({r.x1, RegionRect(i).x1}),
                x2 |-> Min({r.x2, RegionRect(i).x2}),
                y1 |-> Max({r.y1, RegionRect(i).y1}),
                y2 |-> Min({r.y2, RegionRect(i).y2})] : r \in union_all(b)})

\* the boundary and region i share at least a point
Meets(b, i) ==
    \E k \in DOMAIN b :
        /\ b[k].x1 <= RegionRect(i).x2 /\ RegionRect(i).x1 <= b[k].x2
        /\ b[k].y1 <= RegionRect(i).y2 /\ RegionRect(i).y1 <= b[k].y2

\* every piece of the boundary lies inside region i
Inside(b, i) ==
    \A k \in DOMAIN b :
        /\ RegionRect(i).x1 <= b[k].x1 /\ b[k].x2 <= RegionRect(i).x2
        /\ RegionRect(i).y1 <= b[k].y1 /\ b[k].y2 <= RegionRect(i).y2

\* the earliest region of I whose overlap with b is the largest over I
EarliestMax(b, I) ==
    Min({i \in I : \A j \in I : OverlapWith(b, j) <= OverlapWith(b, i)})

FloraNames(list) == [i \in DOMAIN list |-> list[i].name]

\* C1: for every boundary whose merged shape has strictly positive area the
\* call returns a plan, and the plan's region_overlap_percentage is at
\* least 0 and at most 100.
C1_OverlapPercentageInRange ==
    (Called /\ PositiveArea(arg)) =>
        /\ Returned
        /\ 0 <= ThePercentage.n
        /\ ThePercentage.n <= 100 * ThePercentage.d

\* a boundary lying across both regions, 51.7 % of it in the second
C1_Witness ==
    /\ Returned /\ PositiveArea(arg)
    /\ ThePercentage = [n |-> 517, d |-> 10]

\* C2 (as claimed): for every boundary whose merged shape has zero area,
\* analyze_land fails with InvalidBoundary and produces no plan, whether or
\* not the boundary meets a region.
C2_ZeroAreaRejected ==
    (Called /\ ~PositiveArea(arg)) =>
        ret.exc = "InvalidBoundary" /\ ret.plan = <<>>

\* C3: a positive-area boundary lying inside exactly one region gets overlap
\* 100.0, that region's biome key and that key's flora list; inside the
\* first shipped region: Tropical_Rainforest and its three entries in order.
C3_InsideOneRegion ==
    \A i \in RegionIds :
        (/\ Called /\ PositiveArea(arg) /\ Inside(arg, i)
         /\ \A j \in RegionIds \ {i} : ~Inside(arg, j))
        =>
        /\ Returned
        /\ ThePercentage = [n |-> 100, d |-> 1]
        /\ ThePlan.biogeographic_region = BiomeOfRegion[i]
        /\ ThePlan.recommended_flora =
               (IF BiomeOfRegion[i] \in DOMAIN FLORA_DATABASE
                THEN FLORA_DATABASE[BiomeOfRegion[i]] ELSE <<>>)
        /\ i = 1 =>
             /\ ThePlan.biogeographic_region = <<"Tropical", "_", "Rainforest">>
             /\ FloraNames(ThePlan.recommended_flora) =
                    <<"Leucaena leucocephala", "Moringa oleifera",
                      "Paspalum notatum">>

\* a two-piece boundary inside the first region
C3_Witness ==
    /\ Returned /\ PositiveArea(arg) /\ Inside(arg, 1) /\ Len(arg) = 2
    /\ arg[1] # arg[2]
    /\ ThePlan.biogeographic_region = Tropical_Rainforest
    /\ Len(ThePlan.recommended_flora) = 3

\* C4: a positive-area boundary that meets no region gets the default key
\* Tropical_Savanna, overlap 0, and the default key's flora list -- the
\* empty list when the flora table has no entry for it.
C4_NoRegionDefault ==
    (/\ Called /\ PositiveArea(arg)
     /\ \A i \in RegionIds : ~Meets(arg, i))
    =>
    /\ Returned
    /\ ThePlan.biogeographic_region = <<"Tropical", "_", "Savanna">>
    /\ ThePercentage = [n |-> 0, d |-> 1]
    /\ IF Tropical_Savanna \in DOMAIN FLORA_DATABASE
       THEN /\ ThePlan.recommended_flora = FLORA_DATABASE[Tropical_Savanna]
            /\ FloraNames(ThePlan.recommended_flora) =
                   <<"Acacia tortilis", "Cenchrus ciliaris">>
       ELSE ThePlan.recommended_flora = <<>>

\* the default key absent from the flora table: an empty flora list
C4_Witness ==
    /\ Returned /\ PositiveArea(arg)
    /\ \A i \in RegionIds : ~Meets(arg, i)
    /\ Tropical_Savanna \notin DOMAIN FLORA_DATABASE
    /\ ThePlan.recommended_flora = <<>>

\* the regions that share a point with the boundary / a positive area with it
Meeting(b) == {i \in RegionIds : Meets(b, i)}

Overlapping(b) == {i \in RegionIds : OverlapWith(b, i) > 0}

\* C5 (as claimed): whenever some region meets the merged boundary, the
\* selected region is the earliest of the meeting regions with the largest
\* overlap fraction; the default biome is selected only when no region
\* meets the boundary at all -- a region that merely touches it counts as
\* meeting it.
C5_SelectionAmongMeeting ==
    (Called /\ PositiveArea(arg)) =>
        /\ Returned
        /\ ThePlan.biogeographic_region =
               (IF Meeting(arg) # {}
                THEN BiomeOfRegion[EarliestMax(arg, Meeting(arg))]
                ELSE Tropical_Savanna)

\* C5 (amended): whenever some region overlaps the merged boundary in a
\* positive area, the selected region is the earliest region in table order
\* with the largest overlap fraction (a later region with an equal fraction
\* never replaces it); the default biome is selected exactly when no region
\* overlaps the boundary in a positive area -- also when a region merely
\* touches it -- and the overlap is then reported as 0.
C5_SelectionAmongOverlapping ==
    (Called /\ PositiveArea(arg)) =>
        /\ Returned
        /\ IF Overlapping(arg) # {}
           THEN ThePlan.biogeographic_region =
                    BiomeOfRegion[EarliestMax(arg, Overlapping(arg))]
           ELSE /\ ThePlan.biogeographic_region = Tropical_Savanna
                /\ ThePercentage = [n |-> 0, d |-> 1]

\* both regions overlap the boundary equally: the first one is selected
C5_Witness ==
    /\ Returned
    /\ OverlapWith(arg, 1) > 0
    /\ OverlapWith(arg, 1) = OverlapWith(arg, 2)
    /\ ThePlan.biogeographic_region = Tropical_Rainforest

\* C6: the projections depend only on the merged boundary's area A (here in
\* units of 10^-7 square degree, so hectares = A / 1000): trees, chickens
\* and BSF are hectares times 100, 50 and 2, each truncated toward zero
\* from the unrounded hectares; the reported hectares are within half a
\* hundredth of A / 1000; area 1 gives 10000, 1,000,000, 500,000 and
\* 20,000; and trees >= chickens >= BSF >= 0.
C6_Projections ==
    Returned =>
        LET A   == UnionArea(Merged)
            sim == ThePlan.simulation
            ha  == sim.land_area_hectares
        IN  /\ sim.estimated_trees_year_5 = A \div 10
            /\ sim.estimated_chickens_year_2 = A \div 20
            /\ sim.black_soldier_fly_production_kg_week = A \div 500
            /\ 100 % ha.d = 0
            /\ 2 * Abs(ha.n * (1000 \div ha.d) - A) <= 10
            /\ sim.estimated_trees_year_5 >= sim.estimated_chickens_year_2
            /\ sim.estimated_chickens_year_2 >=
                   sim.black_soldier_fly_production_kg_week
            /\ sim.black_soldier_fly_production_kg_week >= 0
            /\ A = 10000000 =>
                 /\ ha = [n |-> 10000, d |-> 1]
                 /\ sim.estimated_trees_year_5 = 1000000
                 /\ sim.estimated_chickens_year_2 = 500000
                 /\ sim.black_soldier_fly_production_kg_week = 20000

\* 0.126 ha: 12.6 trees and 6.3 chickens, truncated to 12 and 6, where the
\* rounded 0.13 ha would give 13
C6_Witness ==
    /\ Returned
    /\ UnionArea(Merged) = 126
    /\ ThePlan.simulation.land_area_hectares = [n |-> 13, d |-> 100]
    /\ ThePlan.simulation.estimated_trees_year_5 = 12
    /\ ThePlan.simulation.estimated_chickens_year_2 = 6

\* C7: analyze_land is repeatable and changes nothing: a call on the
\* boundary returns what the first call on it returned, whatever calls on
\* other boundaries came in between, and no call changes the region table,
\* the flora table or the boundary.
C7_PureAndRepeatable ==
    [][/\ FLORA_DATABASE' = FLORA_DATABASE
       /\ BIOGEO_REGIONS_GDF' = BIOGEO_REGIONS_GDF
       /\ boundary_gdf' = boundary_gdf
       /\ (first # <<>> /\ arg' = boundary_gdf) => ret' = first[1]
       /\ first # <<>> => first' = first]_vars

\* the boundary analyzed a second time after a call on another boundary
C7_Witness ==
    /\ ncalls = 3 /\ arg = boundary_gdf /\ first = <<ret>>
    /\ boundary_gdf \notin OtherBoundaries
    /\ Returned /\ ThePlan.recommended_flora # <<>>

\* the total area of the pieces, each counted by itself
PiecesArea(g) ==
    LET RECURSIVE Total(_)
        Total(S) == IF S = {} THEN 0
                    ELSE LET r == CHOOSE r \in S : TRUE
                         IN  CommonArea({r}) + Total(S \ {r})
    IN  Total(g)

PiecesDisjoint(g) == \A r, t \in g : r # t => CommonArea({r, t}) = 0

\* C9: every area analyze_land uses is that of the union of the pieces:
\* the sum of the pieces' areas when they are disjoint, a doubly covered
\* part counted once, and the reported overlap is
\* area(union /\ region) / area(union) for the best region.
C9_AreasOfTheUnion ==
    Returned =>
        LET A    == UnionArea(Merged)
            best == Max({OverlapWith(arg, i) : i \in RegionIds})
        IN  /\ ThePlan.simulation.estimated_trees_year_5 = A \div 10
            /\ ThePlan.simulation.land_area_hectares = round(Rat(A, 1000), 2)
            /\ PiecesDisjoint(Merged) =>
                   ThePlan.simulation.estimated_trees_year_5
                       = PiecesArea(Merged) \div 10
            /\ A > 0 =>
                   ThePercentage = round(RMul(Rat(best, A), 100), 1)

\* two pieces that overlap in a positive area, half of their union in each
\* region although one piece lies wholly in the first
C9_Witness ==
    /\ Returned /\ Cardinality(Merged) = 2
    /\ ~PiecesDisjoint(Merged)
    /\ PiecesArea(Merged) > UnionArea(Merged)
    /\ \E r \in Merged : Inside(<<r>>, 1)
    /\ ThePercentage # [n |-> 100, d |-> 1]

(***************************************************************************)
(* 9. Properties of process_geojson_file (checked under SpecFile)          *)
(***************************************************************************)
\* the file at path holds a GeoJSON boundary
Readable(fs, path) == path \in DOMAIN fs /\ fs[path].kind = "geojson"

\* the boundary is one whose analysis divides by a zero area
ZeroAreaMeeting(b) == ~PositiveArea(b) /\ Meeting(b) # {}

\* the report's file name: .geojson gives way to _report.txt
ReportName(path) ==
    IF path[2] = ".geojson" THEN <<path[1], "_report.txt">> ELSE path

\* C8: process_geojson_file lets no failure reach its caller: when reading
\* or analysis fails the error is caught and printed, the process goes on
\* and no file is written; a report file is written only once analyze_land
\* and generate_plan_report have returned; and analyze_land does not catch
\* what its own computation raises (the division by a zero area reaches the
\* handler as ZeroDivisionError).  Stated of the latest run, whose starting
\* file system is run.before.
C8_FailuresCaught ==
    run.n > 0 =>
        LET path    == run.path
            before  == run.before
            failing == \/ ~Readable(before, path)
                       \/ ZeroAreaMeeting(before[path].data)
        IN  /\ escaped = "none"
            /\ failing =>
                 /\ run.raised # "none"
                 /\ disk = before
                 /\ \E k \in DOMAIN stdout : stdout[k] = "Error processing file"
                 /\ \A k \in DOMAIN stdout : stdout[k] # "Analysis complete"
            /\ (Readable(before, path) /\ ZeroAreaMeeting(before[path].data)) =>
                 run.raised = "ZeroDivisionError"
            /\ ~failing =>
                 /\ run.raised = "none"
                 /\ DOMAIN disk = DOMAIN before \cup {ReportName(path)}
                 /\ \A p \in DOMAIN before : p # ReportName(path) =>
                        disk[p] = before[p]
                 /\ disk[ReportName(path)].kind = "text"
                 /\ disk[ReportName(path)].data =
                        generate_plan_report(
                            analyze_land(before[path].data, BIOGEO_REGIONS_GDF,
                                         FLORA_DATABASE).plan[1])
            /\ disk # before => run.raised = "none"

\* a run on a zero-area boundary inside a region: the division error was
\* caught and printed, no file was written, and a second run took place
C8_Witness ==
    /\ run.n = 2
    /\ run.raised = "ZeroDivisionError"
    /\ escaped = "none"
    /\ disk = InitialFiles(boundary_gdf)
    /\ \E k \in DOMAIN stdout : stdout[k] = "ZeroDivisionError"

(***************************************************************************)
(* 10. Properties of the drawing page (checked under SpecMap)              *)
(***************************************************************************)
\* the ring of an exported document, back as latlngs without the closing
\* coordinate
RingLatLngs(doc) ==
    LET ring == doc.geometry.coordinates[1]
    IN  [i \in 1..(Len(ring) - 1) |-> [lat |-> ring[i][2], lng |-> ring[i][1]]]

\* C10: a right-click exports only when a polygon is in progress; the
\* exported polygon holds exactly the points clicked since the previous
\* export (or page load), in click order; after an export no polygon is in
\* progress and the next left-click starts a new polygon holding only that
\* click; a right-click with no polygon in progress changes nothing.
C10_ExportsClickedPoints ==
    [][/\ downloads' # downloads =>
            /\ polygon # 0 /\ polygon' = 0
            /\ Len(downloads') = Len(downloads) + 1
            /\ SubSeq(downloads', 1, Len(downloads)) = downloads
            /\ downloads'[Len(downloads')].geometry.type = "Polygon"
            /\ RingLatLngs(downloads'[Len(downloads')]) = clicked
            /\ clicked # <<>>
            /\ LET ring == downloads'[Len(downloads')].geometry.coordinates[1]
               IN  ring[Len(ring)] = ring[1]
            /\ drawnItems' = drawnItems
       /\ (polygon = 0 /\ polygon' # 0) =>
            /\ Len(drawnItems'[polygon']) = 1
            /\ clicked' = drawnItems'[polygon']
            /\ polygon' = Len(drawnItems) + 1
       /\ polygon' # 0 => drawnItems'[polygon'] = clicked'
       /\ polygon' = 0 => clicked' = <<>>
       /\ (polygon = 0 /\ clicked' = clicked) => UNCHANGED vars]_vars

\* two exports, the second of a two-point polygon begun after the first,
\* and a third polygon in progress
C10_Witness ==
    /\ Len(downloads) = 2
    /\ Len(RingLatLngs(downloads[2])) = 2
    /\ RingLatLngs(downloads[2]) # RingLatLngs(downloads[1])
    /\ RingLatLngs(downloads[2]) = drawnItems[2]
    /\ polygon = 3 /\ Len(drawnItems[3]) = 1

====
